---- MODULE Spec2Model ----
(***************************************************************************)
(* Zone aggregation of the waste-report store (src/database.py) and the    *)
(* upload handler that drives it (src/app.py).                             *)
(*                                                                         *)
(* The store is one SQLite file.  Every function opens its own connection. *)
(* A connection that has executed INSERT/UPDATE and not yet committed      *)
(* holds the database write lock; a second connection that tries to write  *)
(* waits for the busy timeout and then raises "database is locked".        *)
(* Reads see committed rows only and are not blocked by the write lock.    *)
(*                                                                         *)
(* Coordinates are integers in units of half the default radius, so the    *)
(* default radius 0.005 is DefaultRadius == 2 and a location can lie       *)
(* strictly inside two cells.  Severities are integers in tenths           *)
(* (src/app.py rounds the severity to one decimal).                        *)
(***************************************************************************)
EXTENDS Integers, Sequences, FiniteSets, TLC

\* ---- bounds of the model
NumProcs == 2
MaxCalls == 3
MaxLat == 2
NumRacers == 3
MaxPhotos == 2

\* ---- program constants
DefaultRadius == 2
SevScale == 10
\* the greatest severity the image analysis yields
MaxLevel == 10

Procs == 1..NumProcs
Lats == 0..MaxLat
\* a longitude on a zone's centre line, or exactly one radius away from it
Lngs == {0, DefaultRadius}
\* severities 4.5 and 10.0, in tenths
Severities == {45, 100}
\* timestamps of stored photos
Stamps == {1, 2}

NoZone == [id |-> 0]
NoPhoto == [id |-> 0]
NoArgs == [latitude |-> 0, longitude |-> 0, severity |-> 0]
NoRet == [status |-> "none", photo_id |-> 0, zone |-> NoZone]
NoBox == [north |-> 0, south |-> 0, east |-> 0, west |-> 0]
\* the threads of a burst of simultaneous requests
Racers == 1..NumRacers

VARIABLES
  photos,      \* committed rows of table photos; the row id is the index
  zones,       \* committed rows of table zones; the row id is the index
  writeLock,   \* process whose add_photo connection holds the write lock, 0 if free
  clock,       \* datetime.now()
  calls,       \* number of calls started
  pc,          \* position of each process
  func,        \* function each process entered: upload_photo, update_zone, get_zone_by_location
  args,        \* arguments of the call in progress
  pending,     \* photo row inserted by add_photo and not yet committed
  found,       \* row fetched by update_zone's SELECT
  uzts,        \* timestamp taken by update_zone
  uzok,        \* whether the nested update_zone returned (TRUE) or raised (FALSE)
  ret,         \* outcome of the last call of each process
  zonesAtCall, \* history: table zones when the call of each process started
  lastCall,    \* history: process whose call ended most recently
  concurrent,  \* history: whether another call was in progress during the call
  reports,     \* history: locations of the update_zone calls that committed
  uploads,     \* history: number of add_photo calls that ended
  bbox,        \* bounding box of the last get_photos request of each process
  listed,      \* rows returned by the last list query of each process
  replay,      \* history: table zones of a second store that is handed the
               \* committed update_zone calls one after the other
  Photo,       \* committed rows of table Photo of the moderation service
               \* (src/swachhata_sentinel); the row id is the index
  apiPending,  \* photo ids of the api_upload_photo requests that have stored
               \* their photo and not yet assessed the zone impact
  zoneImpact   \* photo id and zone impact of the last api_upload_photo response

vars == <<photos, zones, writeLock, clock, calls, pc, func, args, pending,
          found, uzts, uzok, ret, zonesAtCall, lastCall, concurrent, reports, uploads,
          bbox, listed, replay, Photo, apiPending, zoneImpact>>

hist == <<zonesAtCall, concurrent>>

\* results of the list queries
lists == <<bbox, listed>>

\* state of the moderation service
api == <<Photo, apiPending, zoneImpact>>

NoImpact == [photo_id |-> 0, photo_zone |-> [zone_id |-> 0]]
\* values of the status parameter of verify_photo
Statuses == {"verified", "rejected", "spam"}

Abs(x) == IF x < 0 THEN -x ELSE x

\* ---- the store's queries

\* As ZoneWhere, with a cell of half the radius
ZoneWhereHalfRadius(z, latitude, longitude, radius) ==
  /\ Abs(z.center_lat - latitude) * 2 < radius
  /\ Abs(z.center_lng - longitude) * 2 < radius

\* As ZoneWhere, with the cell closed at its border
ZoneWhereInclusive(z, latitude, longitude, radius) ==
  /\ Abs(z.center_lat - latitude) <= radius
  /\ Abs(z.center_lng - longitude) <= radius

\* WHERE ABS(center_lat - ?) < ? AND ABS(center_lng - ?) < ?  (update_zone)
ZoneWhere(z, latitude, longitude, radius) ==
  /\ Abs(z.center_lat - latitude) < radius
  /\ Abs(z.center_lng - longitude) < radius

\* WHERE ABS(center_lat - ?) < ? AND ABS(center_lng - ?) < ?  (get_zone_by_location)
LocationWhere(z, latitude, longitude, radius) ==
  /\ Abs(z.center_lat - latitude) < radius
  /\ Abs(z.center_lng - longitude) < radius

\* The ids of the rows that pass the WHERE clause (hit[i] for row i), in the
\* order of the table scan: neither SELECT has an ORDER BY and table zones has
\* no index, so SQLite walks the table in rowid order.
ScanRows(hit) ==
  LET F[i \in 0..Len(hit)] ==
        IF i = 0 THEN <<>>
        ELSE IF hit[i] THEN Append(F[i - 1], i) ELSE F[i - 1]
  IN F[Len(hit)]

\* cursor.fetchone(): the first row of the result, or None
FetchOne(ids) == IF ids = <<>> THEN 0 ELSE Head(ids)

\* update_zone's SELECT id, waste_level, photo_count ... fetchone()
UpdateZoneFetch(tbl, latitude, longitude, radius) ==
  LET hit == [k \in 1..Len(tbl) |-> ZoneWhere(tbl[k], latitude, longitude, radius)]
      i == FetchOne(ScanRows(hit))
  IN IF i = 0 THEN NoZone
     ELSE [id |-> tbl[i].id, waste_level |-> tbl[i].waste_level,
           photo_count |-> tbl[i].photo_count]

\* As LocationFetch, taking the last matching row instead of the first
LocationFetchLast(tbl, latitude, longitude, radius) ==
  LET hit == [k \in 1..Len(tbl) |-> LocationWhere(tbl[k], latitude, longitude, radius)]
      ids == ScanRows(hit)
  IN IF ids = <<>> THEN NoZone ELSE tbl[ids[Len(ids)]]

\* get_zone_by_location's SELECT ... fetchone(), the row as a dict
LocationFetch(tbl, latitude, longitude, radius) ==
  LET hit == [k \in 1..Len(tbl) |-> LocationWhere(tbl[k], latitude, longitude, radius)]
      i == FetchOne(ScanRows(hit))
  IN IF i = 0 THEN NoZone ELSE tbl[i]

\* int(severity_score)
IntOf(severity) == severity \div SevScale

\* As NewLevel, adding the report's severity to the level instead of averaging
NewLevelSum(current_level, photo_count, severity) == current_level + IntOf(severity)

\* new_level = int((current_level * photo_count + severity_score) / (photo_count + 1)),
\* where photo_count is the fetched count already incremented by one
NewLevel(current_level, photo_count, severity) ==
  (current_level * photo_count * SevScale + severity) \div ((photo_count + 1) * SevScale)

\* As UpdateRow, without the WHERE clause: every row is set
UpdateRowNoWhere(tbl, zone, severity, timestamp) ==
  LET photo_count == zone.photo_count + 1
      new_level == NewLevel(zone.waste_level, photo_count, severity)
  IN [i \in 1..Len(tbl) |->
        [tbl[i] EXCEPT !.waste_level = new_level,
                       !.photo_count = photo_count,
                       !.last_updated = timestamp]]

\* As UpdateRow, with last_updated not yet set when the row becomes visible
UpdateRowNoTimestamp(tbl, zone, severity, timestamp) ==
  LET photo_count == zone.photo_count + 1
      new_level == NewLevel(zone.waste_level, photo_count, severity)
  IN [i \in 1..Len(tbl) |->
        IF tbl[i].id = zone.id
        THEN [tbl[i] EXCEPT !.waste_level = new_level,
                            !.photo_count = photo_count]
        ELSE tbl[i]]

\* UPDATE zones SET waste_level, photo_count, last_updated WHERE id = zone_id
UpdateRow(tbl, zone, severity, timestamp) ==
  LET photo_count == zone.photo_count + 1
      new_level == NewLevel(zone.waste_level, photo_count, severity)
  IN [i \in 1..Len(tbl) |->
        IF tbl[i].id = zone.id
        THEN [tbl[i] EXCEPT !.waste_level = new_level,
                            !.photo_count = photo_count,
                            !.last_updated = timestamp]
        ELSE tbl[i]]

\* As InsertRow, leaving photo_count to the column's DEFAULT 0
InsertRowDefaultCount(tbl, latitude, longitude, radius, severity, timestamp) ==
  Append(tbl, [id |-> Len(tbl) + 1, center_lat |-> latitude, center_lng |-> longitude,
               radius |-> radius, waste_level |-> IntOf(severity),
               photo_count |-> 0, last_updated |-> timestamp])

\* INSERT INTO zones (center_lat, center_lng, radius, waste_level, photo_count, last_updated)
InsertRow(tbl, latitude, longitude, radius, severity, timestamp) ==
  Append(tbl, [id |-> Len(tbl) + 1, center_lat |-> latitude, center_lng |-> longitude,
               radius |-> radius, waste_level |-> IntOf(severity),
               photo_count |-> 1, last_updated |-> timestamp])

\* A sorted result with row r put behind the rows that sort before it or
\* equal to it: the sorter keeps rows of equal key in the order of the scan.
\* before[j] tells whether row j of the result sorts before r or equal to it.
SorterInsert(sorted, r, before) ==
  LET k == Cardinality({j \in 1..Len(sorted) : before[j]})
  IN SubSeq(sorted, 1, k) \o <<r>> \o SubSeq(sorted, k + 1, Len(sorted))

\* ORDER BY waste_level DESC over the scan of table zones
OrderByWasteLevelDesc(tbl) ==
  LET F[i \in 0..Len(tbl)] ==
        IF i = 0 THEN <<>>
        ELSE SorterInsert(F[i - 1], tbl[i],
               [j \in 1..Len(F[i - 1]) |-> F[i - 1][j].waste_level >= tbl[i].waste_level])
  IN F[Len(tbl)]

\* get_all_zones: SELECT ... FROM zones ORDER BY waste_level DESC, fetchall()
AllZonesFetch(tbl) == OrderByWasteLevelDesc(tbl)

\* ORDER BY timestamp DESC over the rows of table photos with the ids given
OrderByTimestampDesc(tbl, ids) ==
  LET F[i \in 0..Len(ids)] ==
        IF i = 0 THEN <<>>
        ELSE SorterInsert(F[i - 1], tbl[ids[i]],
               [j \in 1..Len(F[i - 1]) |-> F[i - 1][j].timestamp >= tbl[ids[i]].timestamp])
  IN F[Len(ids)]

\* As BoundsWhere, with the box open at its north and east borders
BoundsWhereOpen(r, north, south, east, west) ==
  /\ r.latitude < north /\ r.latitude >= south
  /\ r.longitude < east /\ r.longitude >= west

\* WHERE latitude <= ? AND latitude >= ? AND longitude <= ? AND longitude >= ?
BoundsWhere(r, north, south, east, west) ==
  /\ r.latitude <= north /\ r.latitude >= south
  /\ r.longitude <= east /\ r.longitude >= west

\* get_photos_in_bounds: SELECT ... FROM photos WHERE ... ORDER BY timestamp DESC
PhotosInBoundsFetch(tbl, north, south, east, west) ==
  LET hit == [k \in 1..Len(tbl) |-> BoundsWhere(tbl[k], north, south, east, west)]
  IN OrderByTimestampDesc(tbl, ScanRows(hit))

\* As CanWrite, were the nested call to reuse the caller's connection
CanWriteShared(p) == writeLock \in {0, p}

\* Whether a connection newly opened by process p can take the database write
\* lock: get_db_connection opens a separate connection on every call, so the
\* lock that add_photo's connection of the same process holds excludes it too.
CanWrite(p) == writeLock = 0

\* ---- initial state: init_db() has created the two empty tables

Init ==
  /\ photos = <<>>
  /\ zones = <<>>
  /\ writeLock = 0
  /\ clock = 1
  /\ calls = 0
  /\ pc = [p \in Procs |-> "idle"]
  /\ func = [p \in Procs |-> "none"]
  /\ args = [p \in Procs |-> NoArgs]
  /\ pending = [p \in Procs |-> NoPhoto]
  /\ found = [p \in Procs |-> NoZone]
  /\ uzts = [p \in Procs |-> 0]
  /\ uzok = [p \in Procs |-> FALSE]
  /\ ret = [p \in Procs |-> NoRet]
  /\ zonesAtCall = [p \in Procs |-> <<>>]
  /\ lastCall = 0
  /\ concurrent = [p \in Procs |-> FALSE]
  /\ reports = <<>>
  /\ uploads = 0
  /\ bbox = [p \in Procs |-> NoBox]
  /\ listed = [p \in Procs |-> <<>>]
  /\ replay = <<>>
  /\ Photo = <<>>
  /\ apiPending = {}
  /\ zoneImpact = NoImpact

\* A call starts: the process leaves idle with fresh locals.  What is kept of
\* the calls that ended before (their arguments and outcome) is dropped.
Enter(p, f, latitude, longitude, severity, at) ==
  LET Ended(q) == q # p /\ pc[q] = "idle"
  IN
  /\ calls < MaxCalls
  /\ calls' = calls + 1
  /\ pc' = [pc EXCEPT ![p] = at]
  /\ func' = [q \in DOMAIN pc |-> IF q = p THEN f ELSE IF Ended(q) THEN "none" ELSE func[q]]
  /\ args' = [q \in DOMAIN pc |->
        IF q = p THEN [latitude |-> latitude, longitude |-> longitude, severity |-> severity]
        ELSE IF Ended(q) THEN NoArgs ELSE args[q]]
  /\ pending' = [pending EXCEPT ![p] = NoPhoto]
  /\ found' = [found EXCEPT ![p] = NoZone]
  /\ uzts' = [uzts EXCEPT ![p] = 0]
  /\ uzok' = [q \in DOMAIN pc |-> IF q = p \/ Ended(q) THEN FALSE ELSE uzok[q]]
  /\ ret' = [q \in DOMAIN pc |-> IF q = p \/ Ended(q) THEN NoRet ELSE ret[q]]
  /\ zonesAtCall' = [q \in DOMAIN pc |->
        IF q = p THEN zones ELSE IF Ended(q) THEN <<>> ELSE zonesAtCall[q]]
  /\ concurrent' = [q \in DOMAIN pc |->
        IF q = p THEN \E r \in DOMAIN pc : pc[r] # "idle"
        ELSE IF Ended(q) THEN FALSE ELSE TRUE]
  /\ bbox' = [q \in DOMAIN pc |-> IF q = p \/ Ended(q) THEN NoBox ELSE bbox[q]]
  /\ listed' = [q \in DOMAIN pc |-> IF q = p \/ Ended(q) THEN <<>> ELSE listed[q]]
  /\ UNCHANGED <<photos, zones, writeLock, clock, lastCall, reports, uploads, replay>>
  /\ UNCHANGED api

\* A call ends with status st.
Leave(p, st, photo_id, zone) ==
  /\ pc' = [pc EXCEPT ![p] = "idle"]
  /\ pending' = [pending EXCEPT ![p] = NoPhoto]
  /\ found' = [found EXCEPT ![p] = NoZone]
  /\ uzts' = [uzts EXCEPT ![p] = 0]
  /\ ret' = [ret EXCEPT ![p] = [status |-> st, photo_id |-> photo_id, zone |-> zone]]
  /\ lastCall' = p
  /\ uploads' = IF func[p] = "upload_photo" THEN uploads + 1 ELSE uploads

\* upload_photo: the request passed validation and calls db.add_photo
UploadPhoto(p, latitude, longitude, severity) ==
  /\ pc[p] = "idle"
  /\ Enter(p, "upload_photo", latitude, longitude, severity, "ap_insert")

\* update_zone called on its own
CallUpdateZone(p, latitude, longitude, severity) ==
  /\ pc[p] = "idle"
  /\ Enter(p, "update_zone", latitude, longitude, severity, "uz_select")

\* get_zone_by_location called on its own
CallGetZone(p, latitude, longitude) ==
  /\ pc[p] = "idle"
  /\ Enter(p, "get_zone_by_location", latitude, longitude, 0, "gz_select")

\* add_photo up to the INSERT: takes the timestamp, inserts the photo row in an
\* open transaction (which holds the write lock), or raises when another
\* connection holds the lock until the busy timeout.
AddPhotoInsert(p) ==
  /\ pc[p] = "ap_insert"
  /\ clock' = clock + 1
  /\ IF CanWrite(p)
     THEN /\ writeLock' = p
          /\ pending' = [pending EXCEPT ![p] =
                [id |-> Len(photos) + 1, latitude |-> args[p].latitude,
                 longitude |-> args[p].longitude, timestamp |-> clock,
                 severity_score |-> args[p].severity, is_verified |-> FALSE]]
          /\ pc' = [pc EXCEPT ![p] = "uz_select"]
          /\ UNCHANGED <<ret, lastCall, found, uzts, uploads>>
     ELSE /\ Leave(p, "insert_failed", 0, NoZone)
          /\ UNCHANGED writeLock
  /\ UNCHANGED <<photos, zones, calls, func, args, uzok, reports, replay>>
  /\ UNCHANGED <<hist, lists, api>>

\* update_zone, the SELECT and the timestamp
UpdateZoneSelect(p) ==
  /\ pc[p] = "uz_select"
  /\ found' = [found EXCEPT ![p] =
        UpdateZoneFetch(zones, args[p].latitude, args[p].longitude, DefaultRadius)]
  /\ uzts' = [uzts EXCEPT ![p] = clock]
  /\ clock' = clock + 1
  /\ pc' = [pc EXCEPT ![p] = "uz_write"]
  /\ UNCHANGED <<photos, zones, writeLock, calls, func, args, pending, uzok, ret,
                 lastCall, reports, uploads, replay>>
  /\ UNCHANGED <<hist, lists, api>>

\* The table after update_zone's UPDATE or INSERT
ZoneWrite(tbl, zone, a, timestamp) ==
  IF zone # NoZone
  THEN UpdateRow(tbl, zone, a.severity, timestamp)
  ELSE InsertRow(tbl, a.latitude, a.longitude, DefaultRadius, a.severity, timestamp)

\* update_zone, the UPDATE or INSERT and the commit; raises "database is
\* locked" when a connection holds the write lock until the busy timeout.
UpdateZoneWrite(p) ==
  /\ pc[p] = "uz_write"
  /\ IF CanWrite(p)
     THEN /\ zones' = ZoneWrite(zones, found[p], args[p], uzts[p])
          /\ uzok' = [uzok EXCEPT ![p] = TRUE]
          /\ reports' = Append(reports, [latitude |-> args[p].latitude,
                                         longitude |-> args[p].longitude])
          /\ replay' = ZoneWrite(replay,
                UpdateZoneFetch(replay, args[p].latitude, args[p].longitude, DefaultRadius),
                args[p], uzts[p])
     ELSE /\ UNCHANGED <<zones, uzok, reports, replay>>
  /\ IF func[p] = "upload_photo"
     THEN /\ pc' = [pc EXCEPT ![p] = "ap_return"]
          /\ found' = [found EXCEPT ![p] = NoZone]
          /\ uzts' = [uzts EXCEPT ![p] = 0]
          /\ UNCHANGED <<ret, lastCall, pending, uploads>>
     ELSE Leave(p, IF CanWrite(p) THEN "ok" ELSE "zone_failed", 0, NoZone)
  /\ UNCHANGED <<photos, writeLock, clock, calls, func, args>>
  /\ UNCHANGED <<hist, lists, api>>

\* add_photo after update_zone: commit and return the photo id when
\* update_zone returned; when it raised, the exception leaves add_photo, the
\* connection is dropped uncommitted (the insert is rolled back, the lock
\* released) and upload_photo ends with the error.
AddPhotoReturn(p) ==
  /\ pc[p] = "ap_return"
  /\ writeLock' = 0
  /\ IF uzok[p]
     THEN /\ photos' = Append(photos, pending[p])
          /\ pc' = [pc EXCEPT ![p] = "gz_select"]
          /\ ret' = [ret EXCEPT ![p] = [status |-> "stored", photo_id |-> pending[p].id,
                                        zone |-> NoZone]]
          /\ pending' = [pending EXCEPT ![p] = NoPhoto]
          /\ UNCHANGED <<lastCall, found, uzts, uploads>>
     ELSE /\ Leave(p, "zone_failed", 0, NoZone)
          /\ UNCHANGED photos
  /\ UNCHANGED <<zones, clock, calls, func, args, uzok, reports, replay>>
  /\ UNCHANGED <<hist, lists, api>>

\* get_zone_by_location; in upload_photo the zone goes into the 'new_photo'
\* event and the handler returns the photo id.
GetZoneByLocation(p) ==
  /\ pc[p] = "gz_select"
  /\ Leave(p, "ok", ret[p].photo_id,
           LocationFetch(zones, args[p].latitude, args[p].longitude, DefaultRadius))
  /\ UNCHANGED <<photos, zones, writeLock, clock, calls, func, args, uzok, reports, replay>>
  /\ UNCHANGED <<hist, lists, api>>

\* get_all_zones called on its own (the map page and /api/zones)
CallGetAllZones(p) ==
  /\ pc[p] = "idle"
  /\ Enter(p, "get_all_zones", 0, 0, 0, "gaz_select")

\* get_all_zones: one SELECT over the committed rows
GetAllZones(p) ==
  /\ pc[p] = "gaz_select"
  /\ listed' = [listed EXCEPT ![p] = AllZonesFetch(zones)]
  /\ Leave(p, "ok", 0, NoZone)
  /\ UNCHANGED <<photos, zones, writeLock, clock, calls, func, args, uzok, reports, replay>>
  /\ UNCHANGED <<hist, bbox, api>>

\* get_photos: a request for /api/photos arrives
CallGetPhotos(p) ==
  /\ pc[p] = "idle"
  /\ Enter(p, "get_photos", 0, 0, 0, "pib_select")

\* get_photos with the four bounds present: they are parsed and handed to
\* get_photos_in_bounds, which runs one SELECT over the committed rows
GetPhotosInBounds(p, north, south, east, west) ==
  /\ pc[p] = "pib_select"
  /\ bbox' = [bbox EXCEPT ![p] = [north |-> north, south |-> south,
                                   east |-> east, west |-> west]]
  /\ listed' = [listed EXCEPT ![p] = PhotosInBoundsFetch(photos, north, south, east, west)]
  /\ Leave(p, "ok", 0, NoZone)
  /\ UNCHANGED <<photos, zones, writeLock, clock, calls, func, args, uzok, reports, replay>>
  /\ UNCHANGED <<hist, api>>

\* As AllIdle, were a call to start while another is in progress
AnyTime == TRUE

AllIdle == \A p \in Procs : pc[p] = "idle"

Start ==
  \E p \in Procs, latitude \in Lats, longitude \in Lngs :
    \/ \E severity \in Severities : UploadPhoto(p, latitude, longitude, severity)
    \/ \E severity \in Severities : CallUpdateZone(p, latitude, longitude, severity)
    \/ CallGetZone(p, latitude, longitude)

Step ==
  \E p \in Procs :
    \/ AddPhotoInsert(p)
    \/ UpdateZoneSelect(p)
    \/ UpdateZoneWrite(p)
    \/ AddPhotoReturn(p)
    \/ GetZoneByLocation(p)

Next == Start \/ Step

Spec == Init /\ [][Next]_vars

\* Calls one at a time: a call starts only when no call is in progress.
NextSeq == (AllIdle /\ Start) \/ Step

SeqSpec == Init /\ [][NextSeq]_vars

\* The application's requests only, one at a time: uploads and zone lookups.
StartApp ==
  \E p \in Procs, latitude \in Lats, longitude \in Lngs :
    \/ \E severity \in Severities : UploadPhoto(p, latitude, longitude, severity)
    \/ CallGetZone(p, latitude, longitude)

NextAppSeq == (AllIdle /\ StartApp) \/ Step

AppSeqSpec == Init /\ [][NextAppSeq]_vars

\* ---- the moderation service (src/swachhata_sentinel/routes/upload.py)

\* db.query(Photo).filter(Photo.verified_status != "rejected").all(), each row
\* as the dict handed to the zone mapper
PhotoList(tbl) ==
  LET hit == [k \in 1..Len(tbl) |-> tbl[k].verified_status # "rejected"]
      ids == ScanRows(hit)
  IN [k \in 1..Len(ids) |->
        [latitude |-> tbl[ids[k]].latitude, longitude |-> tbl[ids[k]].longitude,
         timestamp |-> tbl[ids[k]].timestamp]]

\* zone_mapper.update_zones(photo_list): the zones of the reports of the list,
\* each report, in turn, counted in the first zone whose cell contains it or
\* made the centre of a new zone; a zone's score is the number of its reports.
ZoneMapperUpdateZones(photo_list) ==
  LET F[i \in 0..Len(photo_list)] ==
        IF i = 0 THEN <<>>
        ELSE LET r == photo_list[i]
                 hit == [k \in 1..Len(F[i - 1]) |->
                           ZoneWhere(F[i - 1][k], r.latitude, r.longitude, DefaultRadius)]
                 z == FetchOne(ScanRows(hit))
             IN IF z # 0
                THEN [F[i - 1] EXCEPT ![z].photo_count = @ + 1,
                                      ![z].last_updated = r.timestamp]
                ELSE Append(F[i - 1],
                       [id |-> Len(F[i - 1]) + 1, center_lat |-> r.latitude,
                        center_lng |-> r.longitude, radius |-> DefaultRadius,
                        photo_count |-> 1, last_updated |-> r.timestamp])
  IN F[Len(photo_list)]

\* photo_zone: the first cluster of the zone impact, None when there is none
PhotoZone(zone_impact) ==
  IF zone_impact = <<>> THEN NoImpact.photo_zone
  ELSE [zone_id |-> zone_impact[1].id, pollution_score |-> zone_impact[1].photo_count]

\* api_upload_photo up to db.commit(): the photo row is stored as pending
ApiUploadPhoto(latitude, longitude) ==
  /\ calls < MaxCalls
  /\ calls' = calls + 1
  /\ Photo' = Append(Photo, [photo_id |-> Len(Photo) + 1, latitude |-> latitude,
                             longitude |-> longitude, timestamp |-> clock,
                             verified_status |-> "pending"])
  /\ clock' = clock + 1
  /\ apiPending' = apiPending \cup {Len(Photo) + 1}
  /\ UNCHANGED <<photos, zones, writeLock, pc, func, args, pending, found, uzts, uzok,
                 ret, lastCall, reports, uploads, replay, zoneImpact>>
  /\ UNCHANGED <<hist, lists>>

\* api_upload_photo from the query of the photos to the response
ApiZoneImpact(photo_id) ==
  /\ photo_id \in apiPending
  /\ apiPending' = apiPending \ {photo_id}
  /\ zoneImpact' = [photo_id |-> photo_id,
                     photo_zone |-> PhotoZone(ZoneMapperUpdateZones(PhotoList(Photo)))]
  /\ UNCHANGED <<photos, zones, writeLock, clock, calls, pc, func, args, pending, found,
                 uzts, uzok, ret, lastCall, reports, uploads, replay, Photo>>
  /\ UNCHANGED <<hist, lists>>

\* verify_photo: 400 on a status other than verified or rejected, 404 on an
\* unknown photo, else the status is set and committed
VerifyPhoto(photo_id, status) ==
  /\ calls < MaxCalls
  /\ calls' = calls + 1
  /\ IF status \in {"verified", "rejected"} /\ photo_id \in 1..Len(Photo)
     THEN Photo' = [Photo EXCEPT ![photo_id].verified_status = status]
     ELSE UNCHANGED Photo
  /\ UNCHANGED <<photos, zones, writeLock, clock, pc, func, args, pending, found, uzts,
                 uzok, ret, lastCall, reports, uploads, replay, apiPending, zoneImpact>>
  /\ UNCHANGED <<hist, lists>>

NextVerify ==
  \/ \E latitude \in Lats, longitude \in Lngs : ApiUploadPhoto(latitude, longitude)
  \/ \E photo_id \in 1..MaxCalls : ApiZoneImpact(photo_id)
  \/ \E photo_id \in 1..MaxCalls, status \in Statuses : VerifyPhoto(photo_id, status)

VerifySpec == Init /\ [][NextVerify]_vars

\* The same requests, one at a time
NextVerifySeq ==
  \/ apiPending = {} /\ \E latitude \in Lats, longitude \in Lngs :
                          ApiUploadPhoto(latitude, longitude)
  \/ \E photo_id \in 1..MaxCalls : ApiZoneImpact(photo_id)
  \/ apiPending = {} /\ \E photo_id \in 1..MaxCalls, status \in Statuses :
                          VerifyPhoto(photo_id, status)

VerifySeqSpec == Init /\ [][NextVerifySeq]_vars

\* ---- update_zone and the zone queries called on their own, concurrently
StartRead ==
  \E p \in Procs :
    \/ \E latitude \in Lats, longitude \in Lngs, severity \in Severities :
         CallUpdateZone(p, latitude, longitude, severity)
    \/ \E latitude \in Lats, longitude \in Lngs : CallGetZone(p, latitude, longitude)
    \/ CallGetAllZones(p)

StepRead ==
  \E p \in Procs :
    \/ UpdateZoneSelect(p)
    \/ UpdateZoneWrite(p)
    \/ GetZoneByLocation(p)
    \/ GetAllZones(p)

NextRead == StartRead \/ StepRead

ReadSpec == Init /\ [][NextRead]_vars

\* The same calls, one at a time
NextReadSeq == (AllIdle /\ StartRead) \/ StepRead

ReadSeqSpec == Init /\ [][NextReadSeq]_vars

\* ---- a burst of simultaneous reports at the origin, on a store that is
\* empty or holds the zone of one earlier report there
RaceInit ==
  /\ photos = <<>>
  /\ zones \in {<<>>} \cup {InsertRow(<<>>, 0, 0, DefaultRadius, severity, 0) :
                             severity \in Severities}
  /\ replay = zones
  /\ Photo = <<>>
  /\ apiPending = {}
  /\ zoneImpact = NoImpact
  /\ reports = [i \in 1..Len(zones) |-> [latitude |-> 0, longitude |-> 0]]
  /\ writeLock = 0
  /\ clock = 1
  /\ calls = 0
  /\ pc = [p \in Racers |-> "idle"]
  /\ func = [p \in Racers |-> "none"]
  /\ args = [p \in Racers |-> NoArgs]
  /\ pending = [p \in Racers |-> NoPhoto]
  /\ found = [p \in Racers |-> NoZone]
  /\ uzts = [p \in Racers |-> 0]
  /\ uzok = [p \in Racers |-> FALSE]
  /\ ret = [p \in Racers |-> NoRet]
  /\ zonesAtCall = [p \in Racers |-> <<>>]
  /\ lastCall = 0
  /\ concurrent = [p \in Racers |-> FALSE]
  /\ uploads = 0
  /\ bbox = [p \in Racers |-> NoBox]
  /\ listed = [p \in Racers |-> <<>>]

NextRace ==
  \E p \in Racers :
    \/ \E severity \in Severities : UploadPhoto(p, 0, 0, severity)
    \/ \E severity \in Severities : CallUpdateZone(p, 0, 0, severity)
    \/ AddPhotoInsert(p)
    \/ UpdateZoneSelect(p)
    \/ UpdateZoneWrite(p)
    \/ AddPhotoReturn(p)

RaceSpec == RaceInit /\ [][NextRace]_vars

\* ---- the photo query as a function of the table: the store holds up to
\* MaxPhotos photo rows
PhotoRows(i) ==
  [id : {i}, latitude : Lats, longitude : Lngs, timestamp : Stamps,
   severity_score : {45}, is_verified : {FALSE}]

PhotoTables ==
  UNION {{t \in [1..n -> UNION {PhotoRows(i) : i \in 1..n}] : \A i \in 1..n : t[i].id = i}
         : n \in 0..MaxPhotos}

QueryInit ==
  /\ photos \in PhotoTables
  /\ zones = <<>>
  /\ writeLock = 0
  /\ clock = 3
  /\ calls = 0
  /\ pc = [p \in Procs |-> "idle"]
  /\ func = [p \in Procs |-> "none"]
  /\ args = [p \in Procs |-> NoArgs]
  /\ pending = [p \in Procs |-> NoPhoto]
  /\ found = [p \in Procs |-> NoZone]
  /\ uzts = [p \in Procs |-> 0]
  /\ uzok = [p \in Procs |-> FALSE]
  /\ ret = [p \in Procs |-> NoRet]
  /\ zonesAtCall = [p \in Procs |-> <<>>]
  /\ lastCall = 0
  /\ concurrent = [p \in Procs |-> FALSE]
  /\ reports = <<>>
  /\ uploads = 0
  /\ bbox = [p \in Procs |-> NoBox]
  /\ listed = [p \in Procs |-> <<>>]
  /\ replay = <<>>
  /\ Photo = <<>>
  /\ apiPending = {}
  /\ zoneImpact = NoImpact

\* one client asks, one request at a time
NextQuery ==
  \/ CallGetPhotos(1)
  \/ \E north \in Lats, south \in Lats, east \in Lngs, west \in Lngs :
       GetPhotosInBounds(1, north, south, east, west)

QuerySpec == QueryInit /\ [][NextQuery]_vars

\* ======================================================================
\* Properties
\* ======================================================================

\* The square cell of a zone, by its own stored centre and radius
InCell(z, latitude, longitude) ==
  /\ Abs(latitude - z.center_lat) < z.radius
  /\ Abs(longitude - z.center_lng) < z.radius

\* The lowest id among the zones of tbl whose cell contains the location, 0 if none
FirstCell(tbl, latitude, longitude) ==
  LET S == {i \in 1..Len(tbl) : InCell(tbl[i], latitude, longitude)}
  IN IF S = {} THEN 0 ELSE CHOOSE i \in S : \A j \in S : i <= j

\* The call of p that ended last was an upload
EndedUpload(p) ==
  /\ pc[p] = "idle"
  /\ func[p] = "upload_photo"
  /\ ret[p].status # "none"

\* The photo record of p's upload is committed under the id the call returned
PhotoStored(p) ==
  /\ ret[p].photo_id \in 1..Len(photos)
  /\ photos[ret[p].photo_id].latitude = args[p].latitude
  /\ photos[ret[p].photo_id].longitude = args[p].longitude
  /\ photos[ret[p].photo_id].severity_score = args[p].severity

RECURSIVE SumCounts(_)
SumCounts(tbl) ==
  IF tbl = <<>> THEN 0 ELSE Head(tbl).photo_count + SumCounts(Tail(tbl))

\* C1: when a report of severity s is assigned to an existing zone that stores
\* wasteLevel L and reportCount N, the zone's new wasteLevel is
\* floor((L*N + s)/(N+1)) and its new reportCount is N+1 (calls one at a time).
C1_RunningAverage ==
  [][\A p \in Procs :
       (pc[p] = "uz_write" /\ pc'[p] # "uz_write" /\ found[p] # NoZone /\ zones' # zones)
       => LET z == zones[found[p].id]
              z2 == zones'[found[p].id]
          IN /\ z2.waste_level =
                  (z.waste_level * z.photo_count * SevScale + args[p].severity)
                     \div ((z.photo_count + 1) * SevScale)
             /\ z2.photo_count = z.photo_count + 1]_vars

\* C2: two concurrent add_photo calls whose locations fall in the same existing
\* zone both persist their photo and, once both have finished, the zone's
\* reportCount has increased by exactly 2.
C2_BothContributionsKept ==
  \A p, q \in Procs : \A i \in 1..Len(zones) :
    ( /\ p # q
      /\ EndedUpload(p) /\ EndedUpload(q)
      /\ concurrent[p] /\ concurrent[q]
      /\ FirstCell(zonesAtCall[p], args[p].latitude, args[p].longitude) = i
      /\ FirstCell(zonesAtCall[q], args[q].latitude, args[q].longitude) = i )
    => LET np == zonesAtCall[p][i].photo_count
           nq == zonesAtCall[q][i].photo_count
           before == IF np <= nq THEN np ELSE nq
       IN /\ PhotoStored(p) /\ PhotoStored(q)
          /\ ret[p].photo_id # ret[q].photo_id
          /\ zones[i].photo_count = before + 2

\* C3: when no existing zone's cell contains the report's location, add_photo
\* creates exactly one new zone centred on the location, with the default
\* radius, wasteLevel floor(severity) and reportCount 1, and leaves every
\* existing zone unchanged (calls one at a time).
C3_NewZoneCreated ==
  \A p \in Procs :
    ( /\ AllIdle /\ lastCall = p /\ EndedUpload(p)
      /\ FirstCell(zonesAtCall[p], args[p].latitude, args[p].longitude) = 0 )
    => /\ Len(zones) = Len(zonesAtCall[p]) + 1
       /\ SubSeq(zones, 1, Len(zonesAtCall[p])) = zonesAtCall[p]
       /\ LET z == zones[Len(zones)]
          IN /\ z.center_lat = args[p].latitude
             /\ z.center_lng = args[p].longitude
             /\ z.radius = DefaultRadius
             /\ z.waste_level * SevScale <= args[p].severity
             /\ args[p].severity < (z.waste_level + 1) * SevScale
             /\ z.photo_count = 1

\* C4: every zone's reportCount equals the number of reports whose location
\* lies inside the zone's cell, also when cells overlap (calls one at a time;
\* the reports are those that reached the zone table).
C4_CountIsReportsInCell ==
  AllIdle =>
    \A i \in 1..Len(zones) :
      zones[i].photo_count =
        Cardinality({j \in 1..Len(reports) :
                       InCell(zones[i], reports[j].latitude, reports[j].longitude)})

C6_NoZoneWriteWithoutPhoto ==
  [][\A p \in Procs :
       (func[p] = "upload_photo" /\ pc[p] \in {"ap_insert", "uz_select", "uz_write", "ap_return"}
          /\ pc'[p] # pc[p] /\ zones' # zones)
       => \E j \in 1..Len(photos) : photos[j] = pending[p]]_vars

\* An upload was aborted after its insert, at a location an existing zone covers,
\* and the zone table is as it was when the call started.
C6_Witness ==
  \E p \in Procs :
    /\ EndedUpload(p) /\ ret[p].status = "zone_failed"
    /\ FirstCell(zones, args[p].latitude, args[p].longitude) # 0
    /\ zones = zonesAtCall[p]

\* C7: when update_zone fails after the photo row was inserted, the photo is
\* still stored and the upload still returns its photo id.
C7_PhotoSurvivesZoneFailure ==
  \A p \in Procs :
    (EndedUpload(p) /\ ret[p].status = "zone_failed") => PhotoStored(p)

\* C8: an add_photo call that runs with no other caller ends with the photo
\* insert and the zone write both committed; the nested update_zone write is
\* not blocked by add_photo's own uncommitted insert.
C8_AddPhotoCompletes ==
  \A p \in Procs :
    (EndedUpload(p) /\ ~concurrent[p])
    => /\ ret[p].status = "ok"
       /\ uzok[p]
       /\ PhotoStored(p)

\* C9: the zone update_zone assigns a report to, and the zone
\* get_zone_by_location returns, contain the location strictly, by the zone's
\* own stored radius: a location exactly one radius away is not in the cell.
C9_StrictCell ==
  \A p \in Procs :
    /\ found[p] # NoZone
         => InCell(zones[found[p].id], args[p].latitude, args[p].longitude)
    /\ ret[p].zone # NoZone
         => InCell(ret[p].zone, args[p].latitude, args[p].longitude)

\* get_zone_by_location has returned a zone, and update_zone is about to create
\* a zone for a location exactly one radius away from an existing centre.
C9_Witness ==
  \E p, q \in Procs :
    /\ func[p] = "get_zone_by_location" /\ ret[p].zone # NoZone
    /\ pc[q] = "uz_write" /\ found[q] = NoZone
    /\ \E i \in 1..Len(zones) :
         \/ /\ Abs(zones[i].center_lat - args[q].latitude) = zones[i].radius
            /\ zones[i].center_lng = args[q].longitude
         \/ /\ Abs(zones[i].center_lng - args[q].longitude) = zones[i].radius
            /\ zones[i].center_lat = args[q].latitude

\* C10: update_zone's SELECT and get_zone_by_location both take the zone of
\* lowest id among those whose cell contains the location, none if there is
\* none: the choice is a function of the zone table.
C10_FirstZoneById ==
  [][\A p \in Procs :
       /\ (pc[p] = "uz_select" /\ pc'[p] = "uz_write")
            => found'[p].id = FirstCell(zones, args[p].latitude, args[p].longitude)
       /\ (pc[p] = "gz_select" /\ pc'[p] = "idle")
            => ret'[p].zone.id = FirstCell(zones, args[p].latitude, args[p].longitude)]_vars

\* update_zone has fetched a zone for a location that lies in two cells.
C10_Witness ==
  \E p \in Procs :
    /\ pc[p] = "uz_write" /\ found[p] # NoZone
    /\ Cardinality({i \in 1..Len(zones) :
                      InCell(zones[i], args[p].latitude, args[p].longitude)}) >= 2

\* The zones of tbl whose cell contains the location
CellsAt(tbl, latitude, longitude) ==
  {i \in 1..Len(tbl) : InCell(tbl[i], latitude, longitude)}

\* The calls of the burst that reported the location when no zone's cell
\* contained it, and ran while another call was in progress.  add_photo does
\* its zone work by calling update_zone, so calls of either count.
FirstReports(latitude, longitude) ==
  {p \in Racers :
     /\ func[p] \in {"upload_photo", "update_zone"}
     /\ ret[p].status # "none"
     /\ concurrent[p]
     /\ args[p].latitude = latitude /\ args[p].longitude = longitude
     /\ CellsAt(zonesAtCall[p], latitude, longitude) = {}}

\* C11: when two or more calls report, concurrently, the same location that no
\* zone's cell contains, then after all of them have finished at most 2 zones
\* have a cell containing the location, however many the calls are.
C11_AtMostOneDuplicate ==
  (\A p \in Racers : pc[p] = "idle") =>
    \A latitude \in Lats, longitude \in Lngs :
      Cardinality(FirstReports(latitude, longitude)) >= 2
        => Cardinality(CellsAt(zones, latitude, longitude)) <= 2

\* C12: in every step of every execution, concurrent calls on the same zone
\* included, every zone stays and its committed reportCount does not decrease.
C12_CountNeverDecreases ==
  [][\A i \in 1..Len(zones) :
       /\ i <= Len(zones')
       /\ zones'[i].photo_count >= zones[i].photo_count]_vars

\* C13: in every reachable state every zone's wasteLevel is an integer in
\* 0..10, after creation and after any number of updates (every severity
\* reported lies in [0,10]).
C13_WasteLevelRange ==
  /\ \A severity \in Severities : severity \in 0..(MaxLevel * SevScale)
  /\ \A i \in 1..Len(zones) : zones[i].waste_level \in 0..MaxLevel

\* A zone that has been updated stands at level 10, and one at a lower level.
C13_Witness ==
  /\ \E i \in 1..Len(zones) : zones[i].photo_count >= 2 /\ zones[i].waste_level = MaxLevel
  /\ \E i \in 1..Len(zones) : zones[i].waste_level < MaxLevel

\* C14: in every reachable state every zone has reportCount >= 1.
C14_CountAtLeastOne ==
  \A i \in 1..Len(zones) : zones[i].photo_count >= 1

\* update_zone has just created a zone for its report.
C14_Witness ==
  \E p \in Procs :
    /\ pc[p] = "idle" /\ func[p] = "update_zone" /\ ret[p].status = "ok"
    /\ Len(zones) = Len(zonesAtCall[p]) + 1
    /\ zones[Len(zones)].center_lat = args[p].latitude
    /\ zones[Len(zones)].center_lng = args[p].longitude
    /\ zones[Len(zones)].photo_count = 1

\* C17: no step removes a zone or changes the id, centre or radius of one; a
\* step that updates a zone changes waste_level, photo_count and last_updated
\* of that one zone only, and a step that creates a zone changes no other.
C17_ZoneFrame ==
  [][/\ Len(zones') >= Len(zones)
     /\ \A i \in 1..Len(zones) :
          /\ i <= Len(zones')
          /\ zones'[i].id = zones[i].id
          /\ zones'[i].center_lat = zones[i].center_lat
          /\ zones'[i].center_lng = zones[i].center_lng
          /\ zones'[i].radius = zones[i].radius
     /\ Cardinality({i \in 1..Len(zones) : i <= Len(zones') /\ zones'[i] # zones[i]})
          <= (IF Len(zones') = Len(zones) THEN 1 ELSE 0)]_vars

\* Two zones exist and one of them was updated after the other was created.
C17_Witness ==
  \E i, j \in 1..Len(zones) :
    /\ i # j
    /\ zones[i].photo_count >= 2
    /\ zones[i].last_updated > zones[j].last_updated

\* C18: a reader never sees a partly updated zone: every step that changes a
\* committed zone row installs the wasteLevel, reportCount and lastUpdated of
\* one update_zone call together, and every row get_all_zones or
\* get_zone_by_location returns is a committed row of the state it read.
C18_NoPartialUpdateSeen ==
  [][/\ \A i \in 1..Len(zones) :
          (i <= Len(zones') /\ zones'[i] # zones[i])
          => \E q \in Procs :
               /\ pc[q] = "uz_write" /\ pc'[q] # "uz_write" /\ found[q].id = i
               /\ zones'[i].photo_count = found[q].photo_count + 1
               /\ zones'[i].waste_level =
                    NewLevel(found[q].waste_level, found[q].photo_count + 1, args[q].severity)
               /\ zones'[i].last_updated = uzts[q]
     /\ \A p \in Procs :
          /\ (pc[p] = "gaz_select" /\ pc'[p] = "idle")
               => /\ Len(listed'[p]) = Len(zones)
                  /\ \A k \in 1..Len(listed'[p]) :
                       listed'[p][k] = zones[listed'[p][k].id]
          /\ (pc[p] = "gz_select" /\ pc'[p] = "idle" /\ ret'[p].zone # NoZone)
               => ret'[p].zone = zones[ret'[p].zone.id]]_vars

\* A reader has returned a zone while an update of that zone, fetched and not
\* yet written, is in progress.
C18_Witness ==
  \E p, q \in Procs :
    /\ pc[q] = "uz_write" /\ found[q] # NoZone
    /\ pc[p] = "idle"
    /\ \/ func[p] = "get_all_zones"
             /\ \E k \in 1..Len(listed[p]) : listed[p][k].id = found[q].id
       \/ func[p] = "get_zone_by_location" /\ ret[p].zone.id = found[q].id

\* C15: get_all_zones returns every zone once, ordered by wasteLevel
\* descending, zones of equal wasteLevel by most recent lastUpdated first.
C15_OrderedByLevelThenRecency ==
  [][\A p \in Procs :
       (pc[p] = "gaz_select" /\ pc'[p] = "idle")
       => LET r == listed'[p]
          IN /\ Len(r) = Len(zones)
             /\ \A i \in 1..Len(zones) : \E k \in 1..Len(r) : r[k] = zones[i]
             /\ \A k \in 1..(Len(r) - 1) :
                  \/ r[k].waste_level > r[k + 1].waste_level
                  \/ /\ r[k].waste_level = r[k + 1].waste_level
                     /\ r[k].last_updated >= r[k + 1].last_updated]_vars

\* The box of a get_photos request, borders included
InBox(r, b) ==
  /\ b.south <= r.latitude /\ r.latitude <= b.north
  /\ b.west <= r.longitude /\ r.longitude <= b.east

\* The get_photos request of p has ended
EndedGetPhotos(p) ==
  pc[p] = "idle" /\ func[p] = "get_photos" /\ ret[p].status = "ok"

\* C16: get_photos_in_bounds returns exactly the stored photos with
\* south <= lat <= north and west <= lng <= east, each once, ordered by
\* timestamp descending.
C16_ExactlyThePhotosInBounds ==
  \A p \in Procs :
    EndedGetPhotos(p)
    => LET r == listed[p]
       IN /\ \A k \in 1..Len(r) :
               /\ r[k].id \in 1..Len(photos)
               /\ r[k] = photos[r[k].id]
               /\ InBox(r[k], bbox[p])
          /\ \A i \in 1..Len(photos) :
               Cardinality({k \in 1..Len(r) : r[k].id = i})
                 = (IF InBox(photos[i], bbox[p]) THEN 1 ELSE 0)
          /\ \A k \in 1..(Len(r) - 1) : r[k].timestamp >= r[k + 1].timestamp

\* A request has returned the later of two stored photos, which lies on the
\* north and east borders of the box, and not the earlier one, which lies
\* outside the box.
C16_Witness ==
  \E p \in Procs :
    /\ EndedGetPhotos(p)
    /\ Len(photos) = 2 /\ Len(listed[p]) = 1
    /\ listed[p][1].latitude = bbox[p].north
    /\ listed[p][1].longitude = bbox[p].east
    /\ \E i \in 1..Len(photos) :
         /\ ~InBox(photos[i], bbox[p])
         /\ photos[i].timestamp < listed[p][1].timestamp

\* C19: the lastUpdated that add_photo's update_zone gives the zone is the
\* timestamp of the photo record, and once add_photo has ended the zone the
\* report was assigned to carries the timestamp stored on the photo.
C19_ZoneStampIsPhotoStamp ==
  \A p \in Procs :
    /\ (func[p] = "upload_photo" /\ pc[p] = "uz_write")
         => uzts[p] = pending[p].timestamp
    /\ EndedUpload(p)
         => /\ PhotoStored(p)
            /\ FirstCell(zones, args[p].latitude, args[p].longitude) # 0
            /\ zones[FirstCell(zones, args[p].latitude, args[p].longitude)].last_updated
                 = photos[ret[p].photo_id].timestamp

AllPhotos(tbl) ==
  [k \in 1..Len(tbl) |->
     [latitude |-> tbl[k].latitude, longitude |-> tbl[k].longitude,
      timestamp |-> tbl[k].timestamp]]

\* C21: verify_photo changes the verification status of that one photo and
\* nothing else, no zone aggregate included, and the zone result a later
\* upload computes is the one it would compute had no status been changed.
C21_VerifyLeavesZoneResults ==
  [][/\ (Len(Photo') = Len(Photo) /\ Photo' # Photo)
          => /\ Cardinality({k \in 1..Len(Photo) : Photo'[k] # Photo[k]}) = 1
             /\ \A k \in 1..Len(Photo) :
                  Photo'[k] = [Photo[k] EXCEPT !.verified_status = Photo'[k].verified_status]
             /\ zones' = zones /\ photos' = photos /\ zoneImpact' = zoneImpact
     /\ (apiPending' # apiPending /\ Len(Photo') = Len(Photo))
          => zoneImpact'.photo_zone = PhotoZone(ZoneMapperUpdateZones(AllPhotos(Photo)))]_vars


C23_NoCentreInsideAnotherCell ==
  \A i, j \in 1..Len(zones) :
    i # j => \/ Abs(zones[i].center_lat - zones[j].center_lat) >= DefaultRadius
             \/ Abs(zones[i].center_lng - zones[j].center_lng) >= DefaultRadius

\* Two zones exactly one radius apart, so that their cells overlap, and a
\* further report placed in the overlap has been aggregated.
C23_Witness ==
  /\ AllIdle
  /\ \E i, j \in 1..Len(zones) :
       /\ i < j
       /\ Abs(zones[i].center_lat - zones[j].center_lat) = DefaultRadius
       /\ zones[i].center_lng = zones[j].center_lng
       /\ \E k \in 1..Len(reports) :
            /\ k > 2
            /\ InCell(zones[i], reports[k].latitude, reports[k].longitude)
            /\ InCell(zones[j], reports[k].latitude, reports[k].longitude)
====
